---- MODULE Spec2Model ----
(***************************************************************************)
(* Model of the PDF acquisition scripts of textbook-archive:               *)
(*   src/2025/download_remaining_pdfs.py  (DirectPDFDownloader)            *)
(*   src/2025/retry_failed_downloads.py   (RetryFailedDownloader)          *)
(*   src/2025/process_all_csvs.py         (NCTBBulkDownloader)             *)
(* The file system, the HTTP transport and the thread pool are the         *)
(* environment; every method of the scripts is an action or an operator.   *)
(***************************************************************************)
EXTENDS Integers, Sequences, FiniteSets, TLC

\* ---------------------------------------------------------------- bounds
\* tasks in the catalog of a pooled run
NTasks == 3
\* distinct destination paths
NPaths == 2
\* max_workers of a pooled run
MaxWorkers == 2
\* retry_count of a pooled run
RetryCount == 2
\* largest retry_count of a single-task run
MaxRetryCount == 3
\* largest retry_count of a run against a host that is down
MaxBackoffRetry == 6
\* largest max_retries of a download_all_pages run
MaxPageRetries == 2
\* most rows of the CSV file of process_csv
NRows == 2
\* most numbered output files in a folder before the run
NNames == 2
\* most files in 2025.json
NFiles == 2

\* ------------------------------------------------------- program constants
\* the size floor of both scripts
MinSize == 1000
\* min(2 ** attempt, 10)
BackoffCap == 10

Paths == 1..NPaths
UrlKinds == {"gdrive", "gdrive_noid", "egov", "direct"}

\* ------------------------------------------------------------ file system
\* A destination file: whether it exists, whether its first four bytes are
\* %PDF, its size in bytes, and whether the process may open it for reading.
File(sig, size) == [exists |-> TRUE, sig |-> sig, size |-> size, readable |-> TRUE]
NoFile == [exists |-> FALSE, sig |-> FALSE, size |-> 0, readable |-> FALSE]
\* A file whose open(file_path, 'rb') raises; the process may still remove it.
Unreadable(sig, size) == [exists |-> TRUE, sig |-> sig, size |-> size, readable |-> FALSE]
BodySizes == {MinSize - 1, MinSize, MinSize + 1, MinSize + 2}
Files ==
    {NoFile, File(FALSE, 0), Unreadable(TRUE, MinSize + 1), Unreadable(FALSE, MinSize - 1)}
        \cup {File(s, z) : s \in BOOLEAN, z \in BodySizes}

\* -------------------------------------------------------------- transport
\* What one session.get can bring back.  kind: "neterr" (the call raises),
\* "http_error" (raise_for_status raises), "ok" (status 200).  ctype: the
\* content-type class, "pdf" standing for application/pdf and
\* application/octet-stream.  confirm, warn, uuid: what an HTML page holds.
\* sig, size: the body; got: the bytes delivered before the stream breaks
\* (got = size: the whole body arrives).
Resp(kind, ctype, confirm, warn, uuid, sig, size, got) ==
    [kind |-> kind, ctype |-> ctype, confirm |-> confirm, warn |-> warn,
     uuid |-> uuid, sig |-> sig, size |-> size, got |-> got]
NetErr == Resp("neterr", "other", FALSE, FALSE, FALSE, FALSE, 0, 0)
HttpError == Resp("http_error", "other", FALSE, FALSE, FALSE, FALSE, 0, 0)
Body(ctype, sig, size, got) == Resp("ok", ctype, FALSE, FALSE, FALSE, sig, size, got)
GoodPdf == Body("pdf", TRUE, MinSize + 1, MinSize + 1)
\* The stream delivers nothing, everything, or breaks just below or just
\* above the size floor.
Gots(size) == {0, size} \cup {g \in {MinSize - 1, MinSize + 1} : g < size}
OkBodies ==
    {Body(c, s, z, g) : c \in {"pdf", "other", "html"}, s \in BOOLEAN,
                        z \in BodySizes, g \in {0} \cup BodySizes}
HtmlPages ==
    {Resp("ok", "html", c, w, u, FALSE, MinSize + 1, MinSize + 1) :
        c \in BOOLEAN, w \in BOOLEAN, u \in BOOLEAN}
AllResponses ==
    {NetErr, HttpError} \cup {r \in OkBodies : r.got \in Gots(r.size)} \cup HtmlPages
\* A PDF body of MinSize + 2 bytes whose stream breaks after MinSize + 1.
CutPdf == Body("pdf", TRUE, MinSize + 2, MinSize + 1)
\* The hosts of the model, by what a call to them can bring back: "any"
\* (anything), "down" (every call raises), "up" (every call brings a complete
\* valid PDF), "flaky" (a call raises or brings a complete valid PDF), "cut"
\* (every call brings a PDF whose stream breaks).
Menu(host) ==
    CASE host = "any" -> AllResponses
      [] host = "down" -> {NetErr}
      [] host = "up" -> {GoodPdf}
      [] host = "flaky" -> {NetErr, GoodPdf}
      [] host = "cut" -> {CutPdf}
\* The pages of a host that puts an interstitial with a confirm token before
\* the file, with or without the virus-scan warning text and a uuid.
ConfirmPages ==
    {Resp("ok", "html", TRUE, w, u, FALSE, MinSize + 1, MinSize + 1) :
        w \in BOOLEAN, u \in BOOLEAN}
\* What a call to the host can bring back, by whether the request carries the
\* token of the page: the "interstitial" host answers with its page until the
\* request carries the token and with the complete PDF when it does.
Answer(host, withToken) ==
    IF host = "interstitial"
    THEN IF withToken THEN {GoodPdf} ELSE ConfirmPages
    ELSE Menu(host)
\* The URLs of a pooled run are those of a generic host.
PoolUrlKinds == {"direct"}

RECURSIVE Pow2(_)
Pow2(n) == IF n = 0 THEN 1 ELSE 2 * Pow2(n - 1)
Min(a, b) == IF a <= b THEN a ELSE b

VARIABLES
    prog,               \* the script that runs: "direct", "retry", "batch"
    max_workers,        \* self.max_workers
    retry_count,        \* self.retry_count
    fs,                 \* the destination files, by path
    fs0,                \* the destination files when the run began
    tasks,              \* downloads (direct), retry_tasks (retry)
    server,             \* per task, its host (see Menu)
    mpc,                \* where the main thread is
    i,                  \* index of the pre-check loop of download_all_pdfs
    pc,                 \* per task, where its download_file call is
    attempt,            \* per task, the loop variable of download_file
    netCalls,           \* per task, the session.get calls made so far
    slept,              \* per task, the wait_time values slept, in order
    ret,                \* per task, the value download_file returned
    downloaded_files,   \* self.downloaded_files, by path
    failed_downloads,   \* self.failed_downloads
    existing_files,     \* self.existing_files
    newly_downloaded,   \* self.newly_downloaded
    report,             \* download_report.json
    index_json,         \* index.json, the ledger the retry run loads and rewrites
    index0,             \* index.json when the retry run began
    newly_downloaded_map, \* RetryFailedDownloader.newly_downloaded, by path
    still_failed,       \* RetryFailedDownloader.still_failed
    method,             \* per task, the index into download_urls
    run,                \* which run of the script this is: 1 or 2
    prev,               \* download_report.json as the run before left it
    writable,           \* whether the ledger file can be opened for writing
    session_queue,      \* download_batch: the sessions not handed out
    held,               \* download_batch: per item, the session it was given
    download_stats,     \* NCTBBulkDownloader.download_stats
    failed_items,       \* download_batch: failed_items
    lock,               \* self.lock: 0 when free, else the task whose thread holds it
    section,            \* per task, the with self.lock block its thread is at
    reg,                \* per task, the counter value its thread read for +=
    max_retries,        \* NCTBBulkDownloader.max_retries
    retry_attempt,      \* download_all_pages: its local retry_count, the round
    items,              \* download_batch: its parameter items
    tried,              \* per item, result['success'] of each of its finished
                        \* download_single_item calls, in order
    error,              \* per item, result['error'] of download_single_item
    summary,            \* what print_final_summary printed
    out_dir,            \* download_print_pages: per folder and file name, the content
    rows,               \* process_csv: the rows of the CSV file not yet read
    json_data,          \* upload: json_data, one entry per file in traversal order
    json_file,          \* upload: 2025Final/2025.json on disk
    uploads             \* upload: the requests.put calls made so far, in order

vars == <<prog, max_workers, retry_count, fs, fs0, tasks, server, mpc, i, pc,
          attempt, netCalls, slept, ret, downloaded_files, failed_downloads,
          existing_files, newly_downloaded, report, index_json, index0,
          newly_downloaded_map, still_failed, method, run, prev, writable,
          session_queue, held, download_stats, failed_items, lock, section, reg,
          max_retries, retry_attempt, items, tried, error, summary,
          out_dir, rows, json_data, json_file, uploads>>

lockVars == <<lock, section, reg>>
config == <<prog, max_workers, retry_count, server, fs0, run, prev, writable>>
ledger == <<downloaded_files, failed_downloads, existing_files, newly_downloaded>>
directVars == <<i, downloaded_files, failed_downloads, existing_files,
                newly_downloaded, report>>
retryVars == <<index_json, index0, newly_downloaded_map, still_failed, method>>
batchVars == <<session_queue, held, download_stats, failed_items>>
pagesVars == <<max_retries, retry_attempt, items, tried, error, summary>>
printVars == <<out_dir, rows>>
uploadVars == <<json_data, json_file, uploads>>
scriptVars == <<printVars, uploadVars>>

Tasks == DOMAIN tasks
NoEntry == [status |-> "none", task |-> 0, file_size |-> 0, attempt |-> 0]
NoReport == [saved |-> FALSE]
\* A ledger file opened with mode 'w' and not written to its end.
TruncatedReport == [saved |-> FALSE, truncated |-> TRUE]
NoStats == [success |-> 0, failed |-> 0]
NoIndex == [exists |-> FALSE, downloaded_files |-> [p \in Paths |-> NoEntry],
            failed_downloads |-> <<>>]

\* ------------------------------------------- DirectPDFDownloader, pure parts
\* extract_google_drive_id: a file id is found or not, by the URL.
extract_google_drive_id(url) == IF url = "gdrive" THEN "id" ELSE "none"

\* The test of check_existing_file on an existing, readable file.
IsValidPDF(f) == f.exists /\ f.readable /\ f.sig /\ f.size > MinSize

\* A check_existing_file that accepts no file.
check_existing_file_rejecting(f) == [valid |-> FALSE, file |-> f]
\* A check_existing_file that accepts a file of exactly MinSize bytes.
check_existing_file_at_floor(f) ==
    IF f.exists /\ f.readable /\ f.sig /\ f.size >= MinSize
    THEN [valid |-> TRUE, file |-> f]
    ELSE [valid |-> FALSE, file |-> IF f.exists THEN NoFile ELSE f]
\* A check_existing_file that leaves the files it rejects in place.
check_existing_file_keeping(f) ==
    [valid |-> f.exists /\ f.readable /\ f.sig /\ f.size > MinSize, file |-> f]

\* check_existing_file: the value returned and the file left at the path.
\* A file that cannot be opened for reading takes the except branch, which
\* removes it as well.
check_existing_file(f) ==
    IF ~f.exists THEN [valid |-> FALSE, file |-> f]
    ELSE IF ~f.readable THEN [valid |-> FALSE, file |-> NoFile]
    ELSE IF f.sig /\ f.size > MinSize THEN [valid |-> TRUE, file |-> f]
    ELSE [valid |-> FALSE, file |-> NoFile]

\* The post-download size check of download_file: the sizes it accepts.
SizeAccepted(size) == ~(size < MinSize)

\* Whether download_file looks at the first bytes of the body: only when the
\* content type is neither application/pdf nor application/octet-stream.
ChecksSignature(ctype) == ctype # "pdf"

\* Lines 160-186 of download_file on response r with the destination holding
\* old: whether the attempt succeeds and the file left at the destination.
DirectProcess(r, old) ==
    IF r.kind # "ok" THEN [ok |-> FALSE, file |-> old]
    ELSE IF ChecksSignature(r.ctype)
    THEN IF r.got = 0 \/ ~r.sig THEN [ok |-> FALSE, file |-> old]
         ELSE [ok |-> r.got = r.size /\ SizeAccepted(r.got),
               file |-> File(TRUE, r.got)]
    ELSE [ok |-> r.got = r.size /\ SizeAccepted(r.got),
          file |-> File(r.sig /\ r.got > 0, r.got)]

\* wait_time of download_file after the failure of attempt a, in half seconds.
DirectWait(a) == 2 * Min(Pow2(a), BackoffCap)

\* ------------------------------------------------------------- the pool
Running(t) == pc[t] \in {"fetch", "refetch", "sleep"}
InFlight(t) == pc[t] \in {"fetch", "refetch"}
NumRunning == Cardinality({t \in Tasks : Running(t)})
NumInFlight == Cardinality({t \in Tasks : InFlight(t)})
\* A pool that starts a submitted task whether or not a worker is free.
WorkerFree_unbounded == TRUE
\* A worker thread is free to take the next queued task.
WorkerFree == NumRunning < max_workers
\* The executor's work queue is first in, first out.
NextQueued(t) == pc[t] = "queued" /\ \A u \in Tasks : u < t => pc[u] # "queued"
AllFinished == \A t \in Tasks : pc[t] \in {"skip", "done"}

\* ------------------------------------------------- DirectPDFDownloader, run
ExistingEntry(t, f) ==
    [status |-> "existing_file", task |-> t, file_size |-> f.size, attempt |-> 0]
\* An entry that stores the loop variable itself, which counts from 0.
NewEntry_from_zero(t, f, a) ==
    [status |-> "newly_downloaded", task |-> t, file_size |-> f.size, attempt |-> a]
NewEntry(t, f, a) ==
    [status |-> "newly_downloaded", task |-> t, file_size |-> f.size, attempt |-> a + 1]
FailedEntry(t, n) ==
    [task |-> t, url |-> tasks[t].url, file_path |-> tasks[t].file_path,
     attempts |-> n]

\* A loop that takes one attempt more than retry_count.
LastAttempt_one_more(a) == a = retry_count

\* if attempt == self.retry_count - 1, of both scripts.
LastAttempt(a) == a = retry_count - 1

\* The except branch of download_file for attempt a of task t.
DirectFail(t, a) ==
    IF LastAttempt(a)
    THEN /\ failed_downloads' = Append(failed_downloads, FailedEntry(t, a + 1))
         /\ pc' = [pc EXCEPT ![t] = "done"]
         /\ ret' = [ret EXCEPT ![t] = "false"]
         /\ slept' = slept
    ELSE /\ pc' = [pc EXCEPT ![t] = "sleep"]
         /\ slept' = [slept EXCEPT ![t] = Append(@, DirectWait(a))]
         /\ UNCHANGED <<failed_downloads, ret>>

\* The success branch of download_file for attempt a of task t.
DirectSucceed(t, a, f) ==
    /\ newly_downloaded' = newly_downloaded + 1
    /\ downloaded_files' =
          [downloaded_files EXCEPT ![tasks[t].file_path] = NewEntry(t, f, a)]
    /\ pc' = [pc EXCEPT ![t] = "done"]
    /\ ret' = [ret EXCEPT ![t] = "true"]
    /\ UNCHANGED <<failed_downloads, slept, existing_files>>

\* The head of the loop body of download_file: the URL is resolved and the
\* first session.get of attempt a is issued.
DirectBeginAttempt(t, a) ==
    /\ attempt' = [attempt EXCEPT ![t] = a]
    /\ IF tasks[t].url = "gdrive_noid"
       THEN /\ DirectFail(t, a)
            /\ UNCHANGED netCalls
       ELSE /\ pc' = [pc EXCEPT ![t] = "fetch"]
            /\ netCalls' = [netCalls EXCEPT ![t] = @ + 1]
            /\ UNCHANGED <<failed_downloads, ret, slept>>

\* The pre-check loop of download_all_pdfs, one iteration.
PreCheck ==
    /\ prog = "direct" /\ mpc = "precheck"
    /\ LET p == tasks[i].file_path
           c == check_existing_file(fs[p])
           pc1 == [pc EXCEPT ![i] = IF c.valid THEN "skip" ELSE "queued"]
       IN  /\ fs' = [fs EXCEPT ![p] = c.file]
           /\ pc' = pc1
           /\ IF c.valid
              THEN /\ existing_files' = existing_files + 1
                   /\ downloaded_files' =
                         [downloaded_files EXCEPT ![p] = ExistingEntry(i, c.file)]
              ELSE UNCHANGED <<existing_files, downloaded_files>>
           /\ i' = i + 1
           /\ mpc' = IF i < Len(tasks) THEN "precheck"
                     ELSE IF \A t \in Tasks : pc1[t] = "skip" THEN "save"
                     ELSE "pool"
    /\ UNCHANGED <<config, scriptVars, lockVars, pagesVars, batchVars, tasks, retryVars, attempt, netCalls, slept, ret,
                   failed_downloads, newly_downloaded, report>>

\* A worker thread takes task t from the queue and runs download_file up to
\* its first session.get.
StartTask(t) ==
    /\ prog = "direct" /\ mpc \in {"pool", "interrupted"}
    /\ NextQueued(t) /\ WorkerFree
    /\ LET p == tasks[t].file_path
           c == check_existing_file(fs[p])
       IN  /\ fs' = [fs EXCEPT ![p] = c.file]
           /\ IF c.valid
              THEN /\ existing_files' = existing_files + 1
                   /\ downloaded_files' =
                         [downloaded_files EXCEPT ![p] = ExistingEntry(t, c.file)]
                   /\ pc' = [pc EXCEPT ![t] = "done"]
                   /\ ret' = [ret EXCEPT ![t] = "true"]
                   /\ UNCHANGED <<attempt, netCalls, slept, failed_downloads>>
              ELSE /\ DirectBeginAttempt(t, 0)
                   /\ UNCHANGED <<existing_files, downloaded_files>>
    /\ UNCHANGED <<config, scriptVars, lockVars, pagesVars, batchVars, tasks, retryVars, mpc, i, newly_downloaded, report>>

\* Lines 160-216 of download_file on response r.
DirectFinish(t, r) ==
    LET p == tasks[t].file_path
        d == DirectProcess(r, fs[p])
    IN  /\ fs' = [fs EXCEPT ![p] = d.file]
        /\ IF d.ok
           THEN DirectSucceed(t, attempt[t], d.file)
           ELSE /\ DirectFail(t, attempt[t])
                /\ UNCHANGED <<downloaded_files, newly_downloaded, existing_files>>

\* The first session.get of an attempt returns (or raises).
Respond(t, r) ==
    /\ prog = "direct" /\ pc[t] = "fetch"
    /\ r \in Answer(server[t], FALSE)
    /\ IF r.kind = "neterr"
       THEN /\ DirectFail(t, attempt[t])
            /\ UNCHANGED <<fs, netCalls, downloaded_files, newly_downloaded,
                           existing_files>>
       ELSE IF tasks[t].url = "gdrive" /\ r.kind = "ok" /\ r.ctype = "html"
       THEN \* response.text reads the whole body
            IF r.got < r.size
            THEN /\ DirectFail(t, attempt[t])
                 /\ UNCHANGED <<fs, netCalls, downloaded_files, newly_downloaded,
                                existing_files>>
            ELSE IF r.confirm
            THEN /\ pc' = [pc EXCEPT ![t] = "refetch"]
                 /\ netCalls' = [netCalls EXCEPT ![t] = @ + 1]
                 /\ UNCHANGED <<fs, ledger, slept, ret>>
            ELSE /\ DirectFinish(t, r)
                 /\ UNCHANGED netCalls
       ELSE /\ DirectFinish(t, r)
            /\ UNCHANGED netCalls
    /\ UNCHANGED <<config, scriptVars, lockVars, pagesVars, batchVars, tasks, retryVars, mpc, i, attempt, report>>

\* The session.get made with the confirm token returns (or raises).
RespondRefetch(t, r) ==
    /\ prog = "direct" /\ pc[t] = "refetch"
    /\ r \in Answer(server[t], TRUE)
    /\ IF r.kind = "neterr"
       THEN /\ DirectFail(t, attempt[t])
            /\ UNCHANGED <<fs, downloaded_files, newly_downloaded, existing_files>>
       ELSE DirectFinish(t, r)
    /\ UNCHANGED <<config, scriptVars, lockVars, pagesVars, batchVars, tasks, retryVars, mpc, i, attempt, netCalls, report>>

\* time.sleep(wait_time) ends and the next attempt begins.
Wake(t) ==
    /\ prog = "direct" /\ pc[t] = "sleep"
    /\ DirectBeginAttempt(t, attempt[t] + 1)
    /\ UNCHANGED <<config, scriptVars, lockVars, pagesVars, batchVars, tasks, retryVars, fs, mpc, i, downloaded_files, existing_files,
                   newly_downloaded, report>>

\* save_download_report, once the pool has shut down (or when nothing was to
\* download).  open(report_path, 'w') raises when the file cannot be written,
\* and run ends there.
save_download_report ==
    /\ prog = "direct"
    /\ mpc = "save" \/ (mpc = "pool" /\ AllFinished)
    /\ IF writable
       THEN /\ report' = [saved |-> TRUE,
                          total_found |-> Cardinality({p \in Paths :
                                             downloaded_files[p].status # "none"})
                                          + Len(failed_downloads),
                          existing_files |-> existing_files,
                          newly_downloaded |-> newly_downloaded,
                          downloaded_files |-> downloaded_files,
                          failed_downloads |-> failed_downloads]
            /\ mpc' = "done"
       ELSE /\ report' = report
            /\ mpc' = "crashed"
    /\ UNCHANGED <<config, scriptVars, lockVars, pagesVars, batchVars, tasks, retryVars, fs, i, pc, attempt, netCalls, slept, ret, ledger>>

\* The script is started again on the same catalog and the same files: main
\* builds a new DirectPDFDownloader, whose ledger is empty, and calls run.
Rerun ==
    /\ prog = "direct" /\ mpc = "done" /\ run = 1
    /\ run' = 2
    /\ prev' = report
    /\ fs0' = fs
    /\ mpc' = "precheck"
    /\ i' = 1
    /\ pc' = [t \in Tasks |-> "pre"]
    /\ attempt' = [t \in Tasks |-> 0]
    /\ netCalls' = [t \in Tasks |-> 0]
    /\ slept' = [t \in Tasks |-> <<>>]
    /\ ret' = [t \in Tasks |-> "none"]
    /\ downloaded_files' = [p \in Paths |-> NoEntry]
    /\ failed_downloads' = <<>>
    /\ existing_files' = 0
    /\ newly_downloaded' = 0
    /\ UNCHANGED <<lockVars, pagesVars, scriptVars, writable, prog, max_workers, retry_count, server, tasks, fs, report,
                   retryVars, batchVars>>

\* ------------------------------------------- RetryFailedDownloader, pure parts
\* len(download_urls) of download_file_advanced
NumMethods == 4

\* _attempt_download from response.raise_for_status() on: whether it returns
\* True (it raises otherwise) and the file left at the destination.
AdvProcess(r, old) ==
    IF r.kind # "ok" THEN [ok |-> FALSE, file |-> old]
    ELSE IF r.got = 0 \/ ~r.sig THEN [ok |-> FALSE, file |-> old]
    ELSE [ok |-> r.got = r.size /\ ~(r.got < MinSize), file |-> File(TRUE, r.got)]

\* wait_time of download_file_advanced after the failure of attempt a, in
\* half seconds: (2 ** attempt) + (attempt * 0.5).
AdvWait(a) == 2 * Pow2(a) + a

\* Whether _attempt_download reissues the request for a Google Drive page:
\* a warning page holding a confirm token or, failing that, a uuid.
AdvRefetches(r) == r.warn /\ (r.confirm \/ r.uuid)

\* ------------------------------------------------ RetryFailedDownloader, run
\* load_previous_results.
load_previous_results ==
    IF index_json.exists THEN index_json.failed_downloads ELSE <<>>

\* The head of retry_failed_downloads: the failed entries become retry_tasks
\* and all are submitted to the pool.
retry_failed_downloads ==
    /\ prog = "retry" /\ mpc = "load"
    /\ LET failed == load_previous_results
       IN  IF failed = <<>>
           THEN /\ mpc' = "update"
                /\ UNCHANGED <<tasks, pc>>
           ELSE /\ tasks' = [k \in DOMAIN failed |->
                               [url |-> failed[k].url, file_path |-> failed[k].file_path]]
                /\ pc' = [k \in DOMAIN failed |-> "queued"]
                /\ mpc' = "pool"
    /\ UNCHANGED <<config, scriptVars, lockVars, pagesVars, batchVars, directVars, retryVars, fs, attempt, netCalls, slept, ret>>

\* The outer except branch of download_file_advanced for attempt a of task t.
AdvFail(t, a) ==
    IF LastAttempt(a)
    THEN /\ still_failed' = Append(still_failed, FailedEntry(t, retry_count))
         /\ pc' = [pc EXCEPT ![t] = "done"]
         /\ ret' = [ret EXCEPT ![t] = "false"]
         /\ slept' = slept
    ELSE /\ pc' = [pc EXCEPT ![t] = "sleep"]
         /\ slept' = [slept EXCEPT ![t] = Append(@, AdvWait(a))]
         /\ UNCHANGED <<still_failed, ret>>

\* The head of the loop body of download_file_advanced: the URL is resolved
\* and the session.get of the first download URL is issued.
AdvBeginAttempt(t, a) ==
    /\ attempt' = [attempt EXCEPT ![t] = a]
    /\ method' = [method EXCEPT ![t] = 1]
    /\ IF tasks[t].url = "gdrive_noid"
       THEN /\ AdvFail(t, a)
            /\ UNCHANGED netCalls
       ELSE /\ pc' = [pc EXCEPT ![t] = "fetch"]
            /\ netCalls' = [netCalls EXCEPT ![t] = @ + 1]
            /\ UNCHANGED <<still_failed, ret, slept>>

\* A method loop without the inner try: the first method that raises ends
\* the attempt.
AdvMethodFail_raising(t) ==
    /\ AdvFail(t, attempt[t])
    /\ UNCHANGED <<method, netCalls>>

\* _attempt_download raised: the next Google Drive method is tried, or the
\* attempt fails.
AdvMethodFail(t) ==
    IF tasks[t].url = "gdrive" /\ method[t] < NumMethods
    THEN /\ method' = [method EXCEPT ![t] = @ + 1]
         /\ pc' = [pc EXCEPT ![t] = "fetch"]
         /\ netCalls' = [netCalls EXCEPT ![t] = @ + 1]
         /\ UNCHANGED <<still_failed, ret, slept>>
    ELSE /\ AdvFail(t, attempt[t])
         /\ UNCHANGED <<method, netCalls>>

\* The success branch of download_file_advanced.
AdvSucceed(t, f) ==
    /\ newly_downloaded_map' =
          [newly_downloaded_map EXCEPT ![tasks[t].file_path] = NewEntry(t, f, attempt[t])]
    /\ pc' = [pc EXCEPT ![t] = "done"]
    /\ ret' = [ret EXCEPT ![t] = "true"]
    /\ UNCHANGED <<still_failed, slept, method, netCalls>>

\* _attempt_download from raise_for_status on, and what follows its return.
AdvFinish(t, r) ==
    LET p == tasks[t].file_path
        d == AdvProcess(r, fs[p])
    IN  /\ fs' = [fs EXCEPT ![p] = d.file]
        /\ IF d.ok
           THEN AdvSucceed(t, d.file)
           ELSE /\ AdvMethodFail(t)
                /\ UNCHANGED newly_downloaded_map

\* A worker thread takes task t from the queue and runs download_file_advanced
\* up to its first session.get.
AdvStartTask(t) ==
    /\ prog = "retry" /\ mpc \in {"pool", "interrupted"}
    /\ NextQueued(t) /\ WorkerFree
    /\ AdvBeginAttempt(t, 0)
    /\ UNCHANGED <<config, scriptVars, lockVars, pagesVars, batchVars, tasks, directVars, fs, mpc, index_json, index0,
                   newly_downloaded_map>>

\* The first session.get of _attempt_download returns (or raises).
AdvRespond(t, r) ==
    /\ prog = "retry" /\ pc[t] = "fetch"
    /\ r \in Answer(server[t], FALSE)
    /\ IF r.kind = "neterr"
       THEN /\ AdvMethodFail(t)
            /\ UNCHANGED <<fs, newly_downloaded_map>>
       ELSE IF tasks[t].url = "gdrive" /\ r.kind = "ok" /\ r.ctype = "html"
       THEN \* response.text reads the whole body
            IF r.got < r.size
            THEN /\ AdvMethodFail(t)
                 /\ UNCHANGED <<fs, newly_downloaded_map>>
            ELSE IF AdvRefetches(r)
            THEN /\ pc' = [pc EXCEPT ![t] = "refetch"]
                 /\ netCalls' = [netCalls EXCEPT ![t] = @ + 1]
                 /\ UNCHANGED <<fs, newly_downloaded_map, still_failed, slept,
                                ret, method>>
            ELSE AdvFinish(t, r)
       ELSE AdvFinish(t, r)
    /\ UNCHANGED <<config, scriptVars, lockVars, pagesVars, batchVars, tasks, directVars, mpc, attempt, index_json, index0>>

\* The session.get made with the confirm token or the uuid returns (or raises).
AdvRespondRefetch(t, r) ==
    /\ prog = "retry" /\ pc[t] = "refetch"
    /\ r \in Answer(server[t], TRUE)
    /\ IF r.kind = "neterr"
       THEN /\ AdvMethodFail(t)
            /\ UNCHANGED <<fs, newly_downloaded_map>>
       ELSE AdvFinish(t, r)
    /\ UNCHANGED <<config, scriptVars, lockVars, pagesVars, batchVars, tasks, directVars, mpc, attempt, index_json, index0>>

\* time.sleep(wait_time) ends and the next attempt begins.
AdvWake(t) ==
    /\ prog = "retry" /\ pc[t] = "sleep"
    /\ AdvBeginAttempt(t, attempt[t] + 1)
    /\ UNCHANGED <<config, scriptVars, lockVars, pagesVars, batchVars, tasks, directVars, fs, mpc, index_json, index0,
                   newly_downloaded_map>>

\* data['downloaded_files'].update(self.newly_downloaded)
DictUpdate(old, new) ==
    [p \in Paths |-> IF new[p].status # "none" THEN new[p] ELSE old[p]]

\* update_index_json, which run calls when retry_failed_downloads returns.
\* Without an index.json its open(index_path, 'r') raises and run ends there,
\* and so does open(index_path, 'w') on a file that cannot be written.
update_index_json ==
    /\ prog = "retry"
    /\ mpc = "update" \/ (mpc = "pool" /\ AllFinished)
    /\ IF index_json.exists /\ writable
       THEN /\ index_json' =
                  [exists |-> TRUE,
                   downloaded_files |->
                       DictUpdate(index_json.downloaded_files, newly_downloaded_map),
                   failed_downloads |-> still_failed]
            /\ mpc' = "done"
       ELSE /\ mpc' = "crashed"
            /\ UNCHANGED index_json
    /\ UNCHANGED <<config, scriptVars, lockVars, pagesVars, batchVars, tasks, directVars, fs, pc, attempt, netCalls, slept,
                   ret, index0, newly_downloaded_map, still_failed, method>>

\* ------------------------------------------------------------- self.lock
\* The with self.lock blocks of the three task functions, statement by
\* statement: download_file (existing file, success, final failure),
\* download_file_advanced (success, final failure) and download_single_item
\* (index.html already there, success, failure).  What the task function does
\* before it reaches the block is left out; which block it reaches is free.
\* (A download_single_item whose download_page gives nothing returns without
\* entering a block and changes no shared state.)
Sections == {"existing", "new", "failed"}
SectionsOf(script) == IF script = "retry" THEN {"new", "failed"} ELSE Sections
InSection == {t \in Tasks : pc[t] \in {"acquire", "load", "store", "release"}}

\* Whether the block starts with a += on a counter, which reads the counter
\* and then writes it, and the counter it is.
HasCounter(k) == (prog = "direct" /\ k # "failed") \/ prog = "batch"
CounterValue(k) ==
    IF prog = "direct"
    THEN IF k = "existing" THEN existing_files ELSE newly_downloaded
    ELSE IF k = "failed" THEN download_stats.failed ELSE download_stats.success

LockFree_forgotten == TRUE
\* threading.Lock: the with statement goes on when no thread holds the lock.
LockFree == lock = 0

\* A worker thread takes task t from the queue and runs the task function up
\* to the with self.lock block k.
ReachLock(t, k) ==
    /\ mpc \in {"pool", "submit", "collect"}
    /\ NextQueued(t)
    /\ Cardinality(InSection) < max_workers
    /\ k \in SectionsOf(prog)
    /\ pc' = [pc EXCEPT ![t] = "acquire"]
    /\ section' = [section EXCEPT ![t] = k]
    /\ UNCHANGED <<config, scriptVars, pagesVars, batchVars, retryVars, directVars, fs, tasks, mpc, attempt,
                   netCalls, slept, ret, lock, reg>>

\* with self.lock: entry.
LockAcquire(t) ==
    /\ pc[t] = "acquire"
    /\ LockFree
    /\ lock' = t
    /\ pc' = [pc EXCEPT ![t] = IF HasCounter(section[t]) THEN "load" ELSE "store"]
    /\ UNCHANGED <<config, scriptVars, pagesVars, batchVars, retryVars, directVars, fs, tasks, mpc, attempt,
                   netCalls, slept, ret, section, reg>>

\* The read of the counter by +=.
LockedLoad(t) ==
    /\ pc[t] = "load"
    /\ reg' = [reg EXCEPT ![t] = CounterValue(section[t])]
    /\ pc' = [pc EXCEPT ![t] = "store"]
    /\ UNCHANGED <<config, scriptVars, pagesVars, batchVars, retryVars, directVars, fs, tasks, mpc, attempt,
                   netCalls, slept, ret, lock, section>>

\* The write of the counter by += and the rest of the block: the entry put
\* into the dictionary or appended to the list.
LockedStore(t) ==
    /\ pc[t] = "store"
    /\ LET p == tasks[t].file_path
           k == section[t]
       IN  \/ /\ prog = "direct" /\ k = "existing"
              /\ existing_files' = reg[t] + 1
              /\ downloaded_files' = [downloaded_files EXCEPT ![p] = ExistingEntry(t, fs[p])]
              /\ UNCHANGED <<newly_downloaded, failed_downloads, newly_downloaded_map,
                             still_failed, download_stats>>
           \/ /\ prog = "direct" /\ k = "new"
              /\ newly_downloaded' = reg[t] + 1
              /\ downloaded_files' = [downloaded_files EXCEPT ![p] = NewEntry(t, fs[p], 0)]
              /\ UNCHANGED <<existing_files, failed_downloads, newly_downloaded_map,
                             still_failed, download_stats>>
           \/ /\ prog = "direct" /\ k = "failed"
              /\ failed_downloads' = Append(failed_downloads, FailedEntry(t, retry_count))
              /\ UNCHANGED <<existing_files, newly_downloaded, downloaded_files,
                             newly_downloaded_map, still_failed, download_stats>>
           \/ /\ prog = "retry" /\ k = "new"
              /\ newly_downloaded_map' =
                     [newly_downloaded_map EXCEPT ![p] = NewEntry(t, fs[p], 0)]
              /\ UNCHANGED <<ledger, still_failed, download_stats>>
           \/ /\ prog = "retry" /\ k = "failed"
              /\ still_failed' = Append(still_failed, FailedEntry(t, retry_count))
              /\ UNCHANGED <<ledger, newly_downloaded_map, download_stats>>
           \/ /\ prog = "batch" /\ k # "failed"
              /\ download_stats' = [download_stats EXCEPT !.success = reg[t] + 1]
              /\ UNCHANGED <<ledger, newly_downloaded_map, still_failed>>
           \/ /\ prog = "batch" /\ k = "failed"
              /\ download_stats' = [download_stats EXCEPT !.failed = reg[t] + 1]
              /\ UNCHANGED <<ledger, newly_downloaded_map, still_failed>>
    /\ pc' = [pc EXCEPT ![t] = "release"]
    /\ UNCHANGED <<config, scriptVars, pagesVars, fs, tasks, mpc, attempt, netCalls, slept, ret, lock, section,
                   reg, i, report, index_json, index0, method, session_queue, held,
                   failed_items>>

\* with self.lock: exit, and the return of the task function.
LockRelease(t) ==
    /\ pc[t] = "release"
    /\ lock' = 0
    /\ pc' = [pc EXCEPT ![t] = "done"]
    /\ ret' = [ret EXCEPT ![t] = IF section[t] = "failed" THEN "false" ELSE "true"]
    /\ UNCHANGED <<config, scriptVars, pagesVars, batchVars, retryVars, directVars, fs, tasks, mpc, attempt,
                   netCalls, slept, section, reg>>

\* ------------------------------------------------------------ interruption
\* The process is killed inside save_download_report, after
\* open(report_path, 'w') has truncated download_report.json and before
\* json.dump has written it to its end.
save_download_report_killed ==
    /\ prog = "direct"
    /\ mpc = "save" \/ (mpc = "pool" /\ AllFinished)
    /\ writable
    /\ report' = TruncatedReport
    /\ mpc' = "killed"
    /\ UNCHANGED <<config, scriptVars, lockVars, pagesVars, batchVars, tasks, retryVars, fs, i, pc, attempt, netCalls,
                   slept, ret, ledger>>

\* The process is killed inside update_index_json, after
\* open(index_path, 'w') has truncated index.json and before json.dump has
\* written it to its end.
update_index_json_killed ==
    /\ prog = "retry"
    /\ mpc = "update" \/ (mpc = "pool" /\ AllFinished)
    /\ index_json.exists /\ writable
    /\ index_json' = [exists |-> TRUE, truncated |-> TRUE]
    /\ mpc' = "killed"
    /\ UNCHANGED <<config, scriptVars, lockVars, pagesVars, batchVars, tasks, directVars, fs, pc, attempt, netCalls,
                   slept, ret, index0, newly_downloaded_map, still_failed, method>>

\* The user interrupts the run: KeyboardInterrupt is raised in the main
\* thread, which is in the pre-check loop or waits in as_completed.  Neither
\* script catches it.  Raised inside the with block of the executor, it runs
\* the block's exit, shutdown(wait=True), which lets the workers go on.
KeyboardInterrupt ==
    /\ \/ prog = "direct" /\ mpc = "precheck" /\ mpc' = "aborted"
       \/ prog \in {"direct", "retry"} /\ mpc = "pool" /\ mpc' = "interrupted"
    /\ UNCHANGED <<config, scriptVars, lockVars, pagesVars, batchVars, tasks, directVars, retryVars, fs, pc, attempt,
                   netCalls, slept, ret>>

\* shutdown(wait=True) returns when every submitted task has run, and the
\* KeyboardInterrupt leaves run and main.
Unwind ==
    /\ mpc = "interrupted" /\ AllFinished
    /\ mpc' = "aborted"
    /\ UNCHANGED <<config, scriptVars, lockVars, pagesVars, batchVars, tasks, directVars, retryVars, fs, pc, attempt,
                   netCalls, slept, ret>>

\* ------------------------------------------------------- NCTBBulkDownloader
\* download_page: the URL as given and with the other scheme, each requested
\* without and then with certificate verification.
urls_to_try == <<"given", "other_scheme">>
verify_modes == <<FALSE, TRUE>>
NumTries == Len(urls_to_try) * Len(verify_modes)

\* A submit loop that hands out the session at the head of the queue and
\* leaves it in the queue.
BatchSubmit_peeking ==
    /\ prog = "batch" /\ mpc = "submit"
    /\ session_queue # <<>>
    /\ held' = [held EXCEPT ![items[i]] = Head(session_queue)]
    /\ session_queue' = session_queue
    /\ pc' = [pc EXCEPT ![items[i]] = "queued"]
    /\ i' = i + 1
    /\ mpc' = IF i < Len(items) THEN "submit" ELSE "collect"
    /\ UNCHANGED <<config, scriptVars, lockVars, pagesVars, retryVars, tasks, fs, attempt, netCalls, slept, ret, ledger,
                   report, download_stats, failed_items>>

\* The submit loop of download_batch, one iteration: session_queue.get(),
\* which blocks while the queue is empty, then executor.submit.
BatchSubmit ==
    /\ prog = "batch" /\ mpc = "submit"
    /\ session_queue # <<>>
    /\ held' = [held EXCEPT ![items[i]] = Head(session_queue)]
    /\ session_queue' = Tail(session_queue)
    /\ pc' = [pc EXCEPT ![items[i]] = "queued"]
    /\ i' = i + 1
    /\ mpc' = IF i < Len(items) THEN "submit" ELSE "collect"
    /\ UNCHANGED <<config, scriptVars, lockVars, pagesVars, retryVars, tasks, fs, attempt, netCalls, slept, ret, ledger,
                   report, download_stats, failed_items>>

\* The executor's work queue is first in, first out: item t is the first of
\* items that was submitted and that no worker has taken yet.
SkippedError == "Skipped - file already exists"
NextSubmitted(t) ==
    \E k \in DOMAIN items :
        /\ items[k] = t /\ pc[t] = "queued"
        /\ \A j \in 1..(k - 1) : pc[items[j]] # "queued"

\* A worker thread takes item t from the executor's queue and runs
\* download_single_item up to the first session.get of download_page.
BatchStart(t) ==
    /\ prog = "batch" /\ mpc \in {"submit", "collect"}
    /\ NextSubmitted(t) /\ WorkerFree
    /\ IF fs[tasks[t].file_path].exists
       THEN /\ pc' = [pc EXCEPT ![t] = "done"]
            /\ ret' = [ret EXCEPT ![t] = "true"]
            /\ download_stats' = [download_stats EXCEPT !.success = @ + 1]
            /\ error' = [error EXCEPT ![t] = SkippedError]
            /\ tried' = [tried EXCEPT ![t] = Append(@, TRUE)]
            /\ UNCHANGED <<netCalls, method>>
       ELSE /\ pc' = [pc EXCEPT ![t] = "fetch"]
            /\ method' = [method EXCEPT ![t] = 1]
            /\ netCalls' = [netCalls EXCEPT ![t] = @ + 1]
            /\ error' = [error EXCEPT ![t] = "None"]
            /\ UNCHANGED <<ret, download_stats, tried>>
    /\ UNCHANGED <<config, scriptVars, lockVars, max_retries, retry_attempt, items, summary, tasks, fs, mpc, i, attempt, slept, ledger, report,
                   index_json, index0, newly_downloaded_map, still_failed,
                   session_queue, held, failed_items>>

\* A session.get of download_page returns (or raises) and download_single_item
\* goes on to its end or to the next request.  written: whether output_file
\* can be opened for writing.
BatchRespond(t, r, written) ==
    /\ prog = "batch" /\ pc[t] = "fetch"
    /\ r \in Answer(server[t], FALSE)
    /\ IF r.kind = "ok" /\ r.got = r.size
       THEN /\ pc' = [pc EXCEPT ![t] = "done"]
            /\ tried' = [tried EXCEPT ![t] = Append(@, written)]
            /\ IF written
               THEN /\ fs' = [fs EXCEPT ![tasks[t].file_path] = File(FALSE, r.size)]
                    /\ ret' = [ret EXCEPT ![t] = "true"]
                    /\ download_stats' = [download_stats EXCEPT !.success = @ + 1]
                    /\ error' = error
               ELSE /\ ret' = [ret EXCEPT ![t] = "false"]
                    /\ download_stats' = [download_stats EXCEPT !.failed = @ + 1]
                    /\ error' = [error EXCEPT ![t] = "str(e)"]
                    /\ fs' = fs
            /\ UNCHANGED <<method, netCalls>>
       ELSE IF method[t] < NumTries
       THEN /\ method' = [method EXCEPT ![t] = @ + 1]
            /\ netCalls' = [netCalls EXCEPT ![t] = @ + 1]
            /\ UNCHANGED <<pc, ret, fs, download_stats, error, tried>>
       ELSE /\ pc' = [pc EXCEPT ![t] = "done"]
            /\ ret' = [ret EXCEPT ![t] = "false"]
            /\ error' = [error EXCEPT ![t] = "Failed to download content"]
            /\ tried' = [tried EXCEPT ![t] = Append(@, FALSE)]
            /\ UNCHANGED <<method, netCalls, fs, download_stats>>
    /\ UNCHANGED <<config, scriptVars, lockVars, max_retries, retry_attempt, items, summary, tasks, mpc, i, attempt, slept, ledger, report,
                   index_json, index0, newly_downloaded_map, still_failed,
                   session_queue, held, failed_items>>

\* The result dict of download_single_item for item t, as failed_downloads
\* keeps it.
BatchResult(t) ==
    [task |-> t, url |-> tasks[t].url, file_path |-> tasks[t].file_path,
     attempts |-> 1, error |-> error[t]]

\* The as_completed loop of download_batch, one iteration, for the finished
\* item t: its session goes back to the queue and its result is recorded.
BatchCollect(t) ==
    /\ prog = "batch" /\ mpc = "collect"
    /\ pc[t] = "done"
    /\ session_queue' = Append(session_queue, held[t])
    /\ held' = [held EXCEPT ![t] = 0]
    /\ pc' = [pc EXCEPT ![t] = "collected"]
    /\ IF ret[t] = "false"
       THEN /\ failed_items' = Append(failed_items, t)
            /\ failed_downloads' = IF retry_attempt = 0
                                    THEN Append(failed_downloads, BatchResult(t))
                                    ELSE failed_downloads
       ELSE UNCHANGED <<failed_items, failed_downloads>>
    /\ mpc' = IF \A u \in Tasks : u # t => pc[u] = "collected" THEN "done" ELSE "collect"
    /\ UNCHANGED <<config, scriptVars, lockVars, pagesVars, retryVars, tasks, fs, i, attempt, netCalls, slept, ret,
                   downloaded_files, existing_files, newly_downloaded, report,
                   download_stats>>

\* download_all_pages, one turn of its while loop: some items failed and
\* retry_count < max_retries, so download_batch is called on the failed items
\* with new sessions and a new executor.
RetryRound ==
    /\ prog = "batch" /\ mpc = "done"
    /\ failed_items # <<>> /\ retry_attempt < max_retries
    /\ retry_attempt' = retry_attempt + 1
    /\ items' = failed_items
    /\ failed_items' = <<>>
    /\ session_queue' = [k \in 1..max_workers |-> k]
    /\ pc' = [t \in DOMAIN pc |-> IF \E k \in DOMAIN failed_items : failed_items[k] = t
                                  THEN "pre" ELSE pc[t]]
    /\ ret' = [t \in DOMAIN ret |-> IF \E k \in DOMAIN failed_items : failed_items[k] = t
                                    THEN "none" ELSE ret[t]]
    /\ i' = 1
    /\ mpc' = "submit"
    /\ UNCHANGED <<config, scriptVars, lockVars, retryVars, max_retries, tried, error, summary,
                   tasks, fs, attempt, netCalls, slept, ledger, report, held,
                   download_stats>>

\* download_all_pages leaves its while loop and calls print_final_summary
\* with the failed items of the last download_batch call.
print_final_summary ==
    /\ prog = "batch" /\ mpc = "done"
    /\ ~(failed_items # <<>> /\ retry_attempt < max_retries)
    /\ LET skipped_count ==
               Cardinality({k \in DOMAIN failed_downloads :
                               failed_downloads[k].error = SkippedError})
       IN  summary' = [printed |-> TRUE,
                       total |-> Len(tasks),
                       skipped_count |-> skipped_count,
                       actual_downloads |-> download_stats.success - skipped_count,
                       failed |-> failed_items]
    /\ mpc' = "summarised"
    /\ UNCHANGED <<config, scriptVars, lockVars, batchVars, retryVars, max_retries, retry_attempt,
                   items, tried, error, tasks, fs, i, pc, attempt, netCalls, slept,
                   ret, ledger, report>>

\* ---------------------------------------------- download_print_pages.py
\* The folders pages are saved to: a year found in the title, or "unknown".
Folders == {"2024", "unknown"}
\* Output file names by number: 0 is index.html, n is index_n.html.
Names == 0..(NNames + NRows - 1)
\* What a name holds: nothing, a file from before the run, a file cut short
\* by a failed write, or (k > 0) the page saved by the k-th call.
Absent == 0
Old == -1
Cut == -2

\* A loop that keeps the first name whether or not it exists.
Probe_overwriting(d, n) == n

\* while os.path.exists(output_file): output_file = f"{name}_{counter}{ext}";
\* counter += 1.  d: the folder, n: the number of the name tried now.
RECURSIVE Probe(_, _)
Probe(d, n) == IF d[n] # Absent THEN Probe(d, n + 1) ELSE n

\* The numbered-name loop and the try block that writes print_content, for
\* the k-th page.  outcome: "saved", "open_failed" (open raises, nothing is
\* created) or "write_failed" (f.write raises after the file was created).
SavePage(folder, k, outcome) ==
    LET n == Probe(out_dir[folder], 0)
    IN  out_dir' = IF outcome = "open_failed" THEN out_dir
                   ELSE [out_dir EXCEPT ![folder][n] =
                            IF outcome = "saved" THEN k ELSE Cut]
Outcomes == {"saved", "open_failed", "write_failed"}

downloadVars == <<max_workers, retry_count, fs, fs0, tasks, server, pc, attempt,
                  netCalls, slept, ret, ledger, report, retryVars, batchVars,
                  lockVars, pagesVars>>

\* process_csv, one iteration of its for loop: the row is read, the page is
\* downloaded (got: download_page returned content) and saved.
process_csv ==
    /\ prog = "print" /\ mpc = "csv" /\ rows # <<>>
    /\ \E got \in BOOLEAN, outcome \in Outcomes :
          IF got THEN SavePage(Head(rows), i, outcome) ELSE out_dir' = out_dir
    /\ rows' = Tail(rows)
    /\ i' = i + 1
    /\ mpc' = IF Tail(rows) = <<>> THEN "done" ELSE "csv"
    /\ UNCHANGED <<downloadVars, uploadVars, prog, run, prev, writable>>

\* download_single_page(url, folder_path), with the default filename; it
\* returns True when the page was saved and False otherwise.
download_single_page ==
    /\ prog = "print" /\ mpc = "single" /\ rows # <<>>
    /\ \E got \in BOOLEAN, outcome \in Outcomes :
          IF got
          THEN /\ SavePage(Head(rows), i, outcome)
               /\ mpc' = IF outcome = "saved" THEN "returned True" ELSE "returned False"
          ELSE /\ out_dir' = out_dir
               /\ mpc' = "returned False"
    /\ rows' = Tail(rows)
    /\ i' = i + 1
    /\ UNCHANGED <<downloadVars, uploadVars, prog, run, prev, writable>>

\* ---------------------------------------------- upload_final_production.py
Placeholder == "https://archive.org/......"
\* the entry has no archive_url key
NoKey == "no archive_url"
OldUrl == "https://archive.org/details/uploaded-before"
\* f"https://archive.org/details/{identifier}" for the k-th file
ArchiveUrl(k) == "https://archive.org/details/" \o ToString(k)

\* A skip test that lets every entry through.
HasArchiveUrl_never(e) == FALSE

\* "archive_url" in file_info and file_info["archive_url"] != placeholder
HasArchiveUrl(e) == e.archive_url # NoKey /\ e.archive_url # Placeholder

\* A run that keeps its results in memory only.
JsonDump_skipped(data, old) == old

\* with open(JSON_FILE, 'w') as f: json.dump(json_data, f): the file after
\* it, old being the file before.  When the file cannot be opened for
\* writing, open raises and the file stays as it was.
JsonDump(data, old) == IF writable THEN data ELSE old

\* process_files_recursively, the loop body for file i from its head to the
\* requests.put of upload_pdf_to_archive being sent.  have_file: whether
\* find_local_pdf_file or download_pdf_if_needed gives a file to upload.
UploadNext(have_file) ==
    /\ prog = "upload" /\ mpc = "loop" /\ i <= Len(json_data)
    /\ IF HasArchiveUrl(json_data[i]) \/ ~json_data[i].has_original_url
       THEN /\ i' = i + 1
            /\ UNCHANGED <<mpc, uploads>>
       ELSE /\ uploads' = Append(uploads, [run |-> run, file |-> i,
                                           had |-> json_data[i].archive_url,
                                           put |-> have_file, ok |-> FALSE])
            /\ IF have_file
               THEN mpc' = "put" /\ i' = i
               ELSE mpc' = "loop" /\ i' = i + 1
    /\ UNCHANGED <<downloadVars, printVars, json_data, json_file, prog, run, prev,
                   writable>>

\* requests.put returns (ok: with status 200 or 201): on success
\* update_json_file sets the entry's archive_url and the JSON file is
\* rewritten; open raising ends the run in main's except Exception.
UploadResponse(ok) ==
    /\ prog = "upload" /\ mpc = "put"
    /\ IF ok
       THEN /\ json_data' = [json_data EXCEPT ![i].archive_url = ArchiveUrl(i)]
            /\ uploads' = [uploads EXCEPT ![Len(uploads)].ok = TRUE]
            /\ json_file' = JsonDump(json_data', json_file)
            /\ mpc' = IF writable THEN "sleep" ELSE "crashed"
       ELSE /\ mpc' = "sleep"
            /\ UNCHANGED <<json_data, json_file, uploads>>
    /\ UNCHANGED <<downloadVars, printVars, i, prog, run, prev, writable>>

\* time.sleep(3) ends and the loop goes to the next file.
UploadSleep ==
    /\ prog = "upload" /\ mpc = "sleep"
    /\ i' = i + 1
    /\ mpc' = "loop"
    /\ UNCHANGED <<downloadVars, printVars, uploadVars, prog, run, prev, writable>>

\* The loops are over and process_files_recursively returns to main.
UploadReturn ==
    /\ prog = "upload" /\ mpc = "loop" /\ i > Len(json_data)
    /\ mpc' = "done"
    /\ UNCHANGED <<downloadVars, printVars, uploadVars, i, prog, run, prev, writable>>

\* Ctrl-C between two files (in time.sleep) or while an upload is under way:
\* main's except KeyboardInterrupt returns.
UploadInterrupt ==
    /\ prog = "upload" /\ mpc \in {"sleep", "put"}
    /\ mpc' = "interrupted"
    /\ UNCHANGED <<downloadVars, printVars, uploadVars, i, prog, run, prev, writable>>

\* The script is started again: main loads the JSON file as the run before
\* left it.
UploadRerun ==
    /\ prog = "upload" /\ run = 1 /\ mpc \in {"done", "interrupted", "crashed"}
    /\ run' = 2
    /\ prev' = [saved |-> TRUE, json |-> json_file, ended |-> mpc]
    /\ json_data' = json_file
    /\ i' = 1
    /\ mpc' = "loop"
    /\ UNCHANGED <<downloadVars, printVars, json_file, uploads, prog, writable>>

\* ------------------------------------------------------------ initial states
\* No downloader runs.
InitNoDownloads ==
    /\ max_workers = 0 /\ retry_count = 0
    /\ fs = <<>> /\ fs0 = <<>> /\ tasks = <<>> /\ server = <<>>
    /\ pc = <<>> /\ attempt = <<>> /\ netCalls = <<>> /\ slept = <<>> /\ ret = <<>>
    /\ method = <<>> /\ held = <<>>
    /\ downloaded_files = [p \in Paths |-> NoEntry]
    /\ failed_downloads = <<>>
    /\ existing_files = 0 /\ newly_downloaded = 0
    /\ report = NoReport
    /\ index_json = NoIndex /\ index0 = NoIndex
    /\ newly_downloaded_map = [p \in Paths |-> NoEntry]
    /\ still_failed = <<>>
    /\ session_queue = <<>>
    /\ download_stats = NoStats
    /\ failed_items = <<>>

CanonicalPaths(seq) ==
    \A k \in DOMAIN seq :
        seq[k].file_path <= 1 + Cardinality({seq[j].file_path : j \in 1..(k - 1)})

DirectCatalogs(n) ==
    {c \in [1..n -> [url : UrlKinds, file_path : Paths]] : CanonicalPaths(c)}

NoSummary == [printed |-> FALSE]
InitNoPages ==
    /\ max_retries = 0
    /\ retry_attempt = 0
    /\ items = <<>>
    /\ tried = <<>>
    /\ error = <<>>
    /\ summary = NoSummary

\* The scripts that do not run hold nothing.
InitNoScripts ==
    /\ out_dir = <<>> /\ rows = <<>>
    /\ json_data = <<>> /\ json_file = <<>> /\ uploads = <<>>

InitLockVars ==
    /\ lock = 0
    /\ section = [t \in 1..NTasks |-> "none"]
    /\ reg = [t \in 1..NTasks |-> 0]

InitDirectOn(catalogs, files, hosts, workers, retries, targets) ==
    /\ prog = "direct"
    /\ InitLockVars
    /\ InitNoPages
    /\ InitNoScripts
    /\ writable \in targets
    /\ max_workers \in workers
    /\ retry_count \in retries
    /\ tasks \in catalogs
    /\ fs \in [Paths -> files]
    /\ fs0 = fs
    /\ server \in [DOMAIN tasks -> hosts]
    /\ mpc = "precheck"
    /\ i = 1
    /\ pc = [t \in DOMAIN tasks |-> "pre"]
    /\ attempt = [t \in DOMAIN tasks |-> 0]
    /\ netCalls = [t \in DOMAIN tasks |-> 0]
    /\ slept = [t \in DOMAIN tasks |-> <<>>]
    /\ ret = [t \in DOMAIN tasks |-> "none"]
    /\ downloaded_files = [p \in Paths |-> NoEntry]
    /\ failed_downloads = <<>>
    /\ existing_files = 0
    /\ newly_downloaded = 0
    /\ report = NoReport
    /\ index_json = NoIndex /\ index0 = NoIndex
    /\ newly_downloaded_map = [p \in Paths |-> NoEntry]
    /\ still_failed = <<>>
    /\ method = [t \in DOMAIN tasks |-> 1]
    /\ run = 1 /\ prev = NoReport
    /\ session_queue = <<>>
    /\ held = [t \in DOMAIN tasks |-> 0]
    /\ download_stats = NoStats
    /\ failed_items = <<>>

InitDirect(catalogs, files, hosts, workers, retries) ==
    InitDirectOn(catalogs, files, hosts, workers, retries, {TRUE})

\* One task, every URL kind, every initial file and every response; the task's
\* host answers anything, fails every call with a transport error, or puts an
\* interstitial with a confirm token before the file.
InitOne ==
    /\ InitDirect(DirectCatalogs(1), Files, {"any", "down", "interstitial"},
                  {1}, 1..MaxRetryCount)
    /\ \A p \in Paths : p # 1 => fs[p] = NoFile

\* NTasks tasks on MaxWorkers workers; destination paths may repeat, as
\* scan_all_markdown_files gives two links of one book and one link number the
\* same file name.
InitPool ==
    InitDirect({c \in DirectCatalogs(NTasks) :
                   \A k \in DOMAIN c : c[k].url \in PoolUrlKinds},
               {NoFile, File(TRUE, MinSize + 1)},
               {"flaky"}, {MaxWorkers}, {RetryCount})

\* The ledgers a retry run can find: failed entries (destination paths may
\* repeat) and successful entries.
LedgerEntry(k, t) == [task |-> k, url |-> t.url, file_path |-> t.file_path, attempts |-> 1]
OldEntry(p) == [status |-> "newly_downloaded", task |-> 0, file_size |-> MinSize + 1,
                attempt |-> 1]
Ledgers(catalogs, successes) ==
    {[exists |-> TRUE,
      downloaded_files |-> [p \in Paths |-> IF p \in S THEN OldEntry(p) ELSE NoEntry],
      failed_downloads |-> [k \in DOMAIN c |-> LedgerEntry(k, c[k])]] :
        c \in catalogs, S \in successes}

InitRetryOn(ledgers, files, hosts, workers, retries, targets) ==
    /\ prog = "retry"
    /\ InitLockVars
    /\ InitNoPages
    /\ InitNoScripts
    /\ writable \in targets
    /\ max_workers \in workers
    /\ retry_count \in retries
    /\ index_json \in ledgers
    /\ index0 = index_json
    /\ tasks = <<>>
    /\ fs \in [Paths -> files]
    /\ \A p \in Paths : index_json.downloaded_files[p].status # "none"
                           => fs[p] = File(TRUE, MinSize + 1)
    /\ fs0 = fs
    /\ server \in [DOMAIN index_json.failed_downloads -> hosts]
    /\ mpc = "load"
    /\ i = 1
    /\ pc = <<>>
    /\ attempt = [t \in DOMAIN index_json.failed_downloads |-> 0]
    /\ netCalls = [t \in DOMAIN index_json.failed_downloads |-> 0]
    /\ slept = [t \in DOMAIN index_json.failed_downloads |-> <<>>]
    /\ ret = [t \in DOMAIN index_json.failed_downloads |-> "none"]
    /\ method = [t \in DOMAIN index_json.failed_downloads |-> 1]
    /\ downloaded_files = [p \in Paths |-> NoEntry]
    /\ failed_downloads = <<>>
    /\ existing_files = 0
    /\ newly_downloaded = 0
    /\ report = NoReport
    /\ newly_downloaded_map = [p \in Paths |-> NoEntry]
    /\ still_failed = <<>>
    /\ run = 1 /\ prev = NoReport
    /\ session_queue = <<>>
    /\ held = [t \in DOMAIN index_json.failed_downloads |-> 0]
    /\ download_stats = NoStats
    /\ failed_items = <<>>

InitRetry(ledgers, files, hosts, workers, retries) ==
    InitRetryOn(ledgers, files, hosts, workers, retries, {TRUE})

\* One failed entry, every URL kind, every file left at its destination and
\* every response.
InitRetryOne ==
    /\ InitRetry(Ledgers(DirectCatalogs(1), {{}}), Files,
                 {"any", "down", "interstitial"}, {1}, 1..MaxRetryCount)
    /\ \A p \in Paths : p # 1 => fs[p] = NoFile

\* No index.json, or 0..NTasks failed entries and any successful ones, the
\* file of each successful entry in place and no other file; the hosts either
\* all may fail or all deliver.
InitRetryPool ==
    InitRetry({NoIndex} \cup
              Ledgers(UNION {{c \in DirectCatalogs(n) :
                                 \A k \in DOMAIN c : c[k].url \in PoolUrlKinds} :
                             n \in 0..NTasks},
                      SUBSET Paths),
              {NoFile, File(TRUE, MinSize + 1)},
              {"flaky", "up"}, {MaxWorkers}, {RetryCount})
    /\ \A p \in Paths : index_json.downloaded_files[p].status = "none"
                           => fs[p] = NoFile
    /\ \A t, u \in DOMAIN server : server[t] = server[u]

\* download_batch on 1..NTasks items, each with its own folder; an index.html
\* may be in a folder already.
BatchItems(n) == [t \in 1..n |-> [url |-> "direct", file_path |-> t]]
InitBatchOn(retries) ==
    /\ prog = "batch"
    /\ InitLockVars
    /\ InitNoScripts
    /\ max_retries \in retries
    /\ retry_attempt = 0
    /\ summary = NoSummary
    /\ max_workers = MaxWorkers
    /\ retry_count = 1
    /\ tasks \in {BatchItems(n) : n \in 1..NTasks}
    /\ fs \in [DOMAIN tasks -> {NoFile, File(FALSE, MinSize + 1)}]
    /\ fs0 = fs
    /\ server = [t \in DOMAIN tasks |-> "flaky"]
    /\ mpc = "submit"
    /\ i = 1
    /\ pc = [t \in DOMAIN tasks |-> "pre"]
    /\ attempt = [t \in DOMAIN tasks |-> 0]
    /\ netCalls = [t \in DOMAIN tasks |-> 0]
    /\ slept = [t \in DOMAIN tasks |-> <<>>]
    /\ ret = [t \in DOMAIN tasks |-> "none"]
    /\ method = [t \in DOMAIN tasks |-> 1]
    /\ downloaded_files = [p \in Paths |-> NoEntry]
    /\ failed_downloads = <<>>
    /\ existing_files = 0
    /\ newly_downloaded = 0
    /\ report = NoReport
    /\ index_json = NoIndex /\ index0 = NoIndex
    /\ newly_downloaded_map = [p \in Paths |-> NoEntry]
    /\ still_failed = <<>>
    /\ run = 1 /\ prev = NoReport
    /\ writable = TRUE
    /\ session_queue = [k \in 1..max_workers |-> k]
    /\ held = [t \in DOMAIN tasks |-> 0]
    /\ download_stats = NoStats
    /\ failed_items = <<>>
    /\ items = [k \in DOMAIN tasks |-> k]
    /\ tried = [t \in DOMAIN tasks |-> <<>>]
    /\ error = [t \in DOMAIN tasks |-> "None"]

InitBatch == InitBatchOn({0})

Init == InitOne \/ InitPool

NextDirect ==
    \/ PreCheck
    \/ \E t \in Tasks : StartTask(t)
    \/ \E t \in Tasks : \E r \in Answer(server[t], FALSE) : Respond(t, r)
    \/ \E t \in Tasks : \E r \in Answer(server[t], TRUE) : RespondRefetch(t, r)
    \/ \E t \in Tasks : Wake(t)
    \/ save_download_report

NextRetry ==
    \/ retry_failed_downloads
    \/ \E t \in Tasks : AdvStartTask(t)
    \/ \E t \in Tasks : \E r \in Answer(server[t], FALSE) : AdvRespond(t, r)
    \/ \E t \in Tasks : \E r \in Answer(server[t], TRUE) : AdvRespondRefetch(t, r)
    \/ \E t \in Tasks : AdvWake(t)
    \/ update_index_json

\* DirectPDFDownloader.run: one task under every input, and a pooled run.
Spec == Init /\ [][NextDirect]_vars

\* RetryFailedDownloader.run: one failed entry under every input, and a pooled run.
InitR == InitRetryOne \/ InitRetryPool
SpecRetry == InitR /\ [][NextRetry]_vars

\* One task of either script under every input.
InitSingle == InitOne \/ InitRetryOne
NextSingle == NextDirect \/ NextRetry
SpecOne == InitSingle /\ [][NextSingle]_vars

NextBatch ==
    \/ BatchSubmit
    \/ \E t \in Tasks : BatchStart(t)
    \/ \E t \in Tasks : \E r \in Answer(server[t], FALSE) : \E written \in BOOLEAN :
          BatchRespond(t, r, written)
    \/ \E t \in Tasks : BatchCollect(t)

\* NCTBBulkDownloader.download_batch alone.
SpecBatch == InitBatch /\ [][NextBatch]_vars

\* NCTBBulkDownloader.download_all_pages: the first download_batch call, the
\* retry rounds and the final summary.
InitAllPages == InitBatchOn(0..MaxPageRetries)
NextAllPages == NextBatch \/ RetryRound \/ print_final_summary
SpecAllPages == InitAllPages /\ [][NextAllPages]_vars

\* NCTBDownloader: process_csv on a CSV file of up to NRows rows, or one
\* call of download_single_page; any of the first NNames names may be in a
\* folder already.
InitPrint ==
    /\ prog = "print"
    /\ InitNoDownloads /\ InitLockVars /\ InitNoPages
    /\ json_data = <<>> /\ json_file = <<>> /\ uploads = <<>>
    /\ mpc \in {"csv", "single"}
    /\ rows \in UNION {[1..n -> Folders] : n \in 1..NRows}
    /\ mpc = "single" => Len(rows) = 1
    /\ out_dir \in [Folders -> [Names -> {Absent, Old}]]
    /\ \A f \in Folders : \A n \in Names : n >= NNames => out_dir[f][n] = Absent
    /\ i = 1
    /\ run = 1 /\ prev = NoReport /\ writable = TRUE
NextPrint == process_csv \/ download_single_page
SpecPrint == InitPrint /\ [][NextPrint]_vars

\* upload_final_production.py: main on a JSON file of up to NFiles files, run
\* once and then again.
JsonEntries == [archive_url : {NoKey, Placeholder, OldUrl}, has_original_url : BOOLEAN]
InitUpload ==
    /\ prog = "upload"
    /\ InitNoDownloads /\ InitLockVars /\ InitNoPages
    /\ out_dir = <<>> /\ rows = <<>>
    /\ json_file \in UNION {[1..n -> JsonEntries] : n \in 1..NFiles}
    /\ json_data = json_file
    /\ uploads = <<>>
    /\ mpc = "loop"
    /\ i = 1
    /\ run = 1 /\ prev = NoReport
    /\ writable \in BOOLEAN
NextUpload ==
    \/ \E have_file \in BOOLEAN : UploadNext(have_file)
    \/ \E ok \in BOOLEAN : UploadResponse(ok)
    \/ UploadSleep
    \/ UploadReturn
    \/ UploadInterrupt
    \/ UploadRerun
SpecUpload == InitUpload /\ [][NextUpload]_vars

\* The three scripts that run a thread pool, each on its own inputs.
InitPools == Init \/ InitR \/ InitBatch
NextPools == NextDirect \/ NextRetry \/ NextBatch
SpecPools == InitPools /\ [][NextPools]_vars

\* One task of either script whose host is down, under every retry_count up
\* to MaxBackoffRetry.  No call to such a host gets a page to answer with a
\* confirm token, so the second request of an attempt is never made.
InitBackoff ==
    \/ /\ InitDirect(DirectCatalogs(1), {NoFile}, {"down"}, {1}, 1..MaxBackoffRetry)
    \/ /\ InitRetry(Ledgers(DirectCatalogs(1), {{}}), {NoFile}, {"down"}, {1},
                     1..MaxBackoffRetry)
NextBackoff ==
    \/ PreCheck
    \/ \E t \in Tasks : StartTask(t)
    \/ \E t \in Tasks : \E r \in Answer(server[t], FALSE) : Respond(t, r)
    \/ \E t \in Tasks : Wake(t)
    \/ save_download_report
    \/ retry_failed_downloads
    \/ \E t \in Tasks : AdvStartTask(t)
    \/ \E t \in Tasks : \E r \in Answer(server[t], FALSE) : AdvRespond(t, r)
    \/ \E t \in Tasks : AdvWake(t)
    \/ update_index_json
SpecBackoff == InitBackoff /\ [][NextBackoff]_vars

\* DirectPDFDownloader.run twice on one catalog of generic-host URLs, the
\* files of the first run left in place; every host answers each call the same
\* way: a complete PDF, a transport error, or a PDF whose stream breaks.
InitTwice ==
    InitDirect({c \in DirectCatalogs(NTasks) :
                   \A k \in DOMAIN c : c[k].url \in PoolUrlKinds},
               {NoFile, File(TRUE, MinSize + 1)},
               {"up", "down", "cut"}, {MaxWorkers}, {RetryCount})
NextTwice ==
    \/ PreCheck
    \/ \E t \in Tasks : StartTask(t)
    \/ \E t \in Tasks : \E r \in Answer(server[t], FALSE) : Respond(t, r)
    \/ \E t \in Tasks : Wake(t)
    \/ save_download_report
    \/ Rerun
SpecTwice == InitTwice /\ [][NextTwice]_vars

\* The three scripts from their start to the end of their pools, the task
\* functions seen at their with self.lock blocks.
InitLock ==
    \/ InitDirect({c \in DirectCatalogs(NTasks) : \A k \in DOMAIN c : c[k].url = "direct"},
                  {NoFile, File(TRUE, MinSize + 1)}, {"flaky"}, {MaxWorkers}, {RetryCount})
    \/ InitRetry(Ledgers({c \in DirectCatalogs(NTasks) :
                              \A k \in DOMAIN c : c[k].url = "direct"}, {{}}),
                 {NoFile}, {"flaky"}, {MaxWorkers}, {RetryCount})
    \/ InitBatch
NextLock ==
    \/ PreCheck
    \/ retry_failed_downloads
    \/ BatchSubmit
    \/ \E t \in Tasks : \E k \in Sections : ReachLock(t, k)
    \/ \E t \in Tasks : LockAcquire(t)
    \/ \E t \in Tasks : LockedLoad(t)
    \/ \E t \in Tasks : LockedStore(t)
    \/ \E t \in Tasks : LockRelease(t)
SpecLock == InitLock /\ [][NextLock]_vars

\* Both scripts where the ledger file (download_report.json, index.json) may
\* be one that cannot be opened for writing.
InitSetup ==
    \/ InitDirectOn({c \in DirectCatalogs(NPaths) :
                        \A k \in DOMAIN c : c[k].url \in PoolUrlKinds},
                    {NoFile, File(TRUE, MinSize + 1), File(FALSE, MinSize + 1)},
                    {"flaky"}, {MaxWorkers}, {RetryCount}, BOOLEAN)
    \/ InitRetryOn({NoIndex} \cup
                   Ledgers(UNION {{c \in DirectCatalogs(n) :
                                      \A k \in DOMAIN c : c[k].url \in PoolUrlKinds} :
                                  n \in 0..NPaths},
                           {{}}),
                   {NoFile, File(FALSE, MinSize + 1)},
                   {"flaky"}, {MaxWorkers}, {RetryCount}, BOOLEAN)
SpecSetup == InitSetup /\ [][NextBackoff]_vars

\* Both scripts on generic-host URLs, DirectPDFDownloader twice, with the
\* interruptions the user or the system can make: a KeyboardInterrupt during
\* the run, and the end of the process while the ledger is written.
InitInterrupt == InitTwice \/ InitRetryPool
NextInterrupt ==
    \/ PreCheck
    \/ \E t \in Tasks : StartTask(t)
    \/ \E t \in Tasks : \E r \in Answer(server[t], FALSE) : Respond(t, r)
    \/ \E t \in Tasks : Wake(t)
    \/ save_download_report
    \/ Rerun
    \/ retry_failed_downloads
    \/ \E t \in Tasks : AdvStartTask(t)
    \/ \E t \in Tasks : \E r \in Answer(server[t], FALSE) : AdvRespond(t, r)
    \/ \E t \in Tasks : AdvWake(t)
    \/ update_index_json
    \/ save_download_report_killed
    \/ update_index_json_killed
    \/ KeyboardInterrupt
    \/ Unwind
SpecInterrupt == InitInterrupt /\ [][NextInterrupt]_vars

\* DirectPDFDownloader.run on NPaths tasks of generic-host URLs with every
\* kind of file at the destination of the first task and no file, a valid
\* file or an invalid file at the others.
InitExisting ==
    /\ InitDirect({c \in DirectCatalogs(NPaths) :
                      \A k \in DOMAIN c : c[k].url \in PoolUrlKinds},
                  Files, {"flaky"}, {MaxWorkers}, {RetryCount})
    /\ \A p \in Paths :
          p # 1 => fs[p] \in {NoFile, File(TRUE, MinSize + 1), File(FALSE, MinSize + 1)}
NextExisting ==
    \/ PreCheck
    \/ \E t \in Tasks : StartTask(t)
    \/ \E t \in Tasks : \E r \in Answer(server[t], FALSE) : Respond(t, r)
    \/ \E t \in Tasks : Wake(t)
    \/ save_download_report
SpecExisting == InitExisting /\ [][NextExisting]_vars

\* ====================================================================
\* Properties
\* ====================================================================
PathOf(t) == tasks[t].file_path
\* No other task of the run has the destination path of task t.
Sole(t) == \A u \in Tasks : u # t => PathOf(u) # PathOf(t)
NumFailedAt(failed, p) == Cardinality({k \in DOMAIN failed : failed[k].file_path = p})
NumFailedOf(failed, t) == Cardinality({k \in DOMAIN failed : failed[k].task = t})
Recorded(entry) == entry.status # "none"

\* C1: after a completed run of DirectPDFDownloader (the report is saved),
\* the destination path of every task is either a key of downloaded_files or
\* the file_path of exactly one entry of failed_downloads, never both and
\* never neither.
C1_ExactlyOneOutcome ==
    report.saved =>
        \A t \in Tasks :
            \/ /\ Recorded(report.downloaded_files[PathOf(t)])
               /\ NumFailedAt(report.failed_downloads, PathOf(t)) = 0
            \/ /\ ~Recorded(report.downloaded_files[PathOf(t)])
               /\ NumFailedAt(report.failed_downloads, PathOf(t)) = 1

\* C2: a task that ended failed (download_file or download_file_advanced
\* returned False) has no file at its destination that passes the
\* existing-file check.  Stated for tasks that share their destination with
\* no other task.
C2_FailedLeavesNoValidFile ==
    \A t \in Tasks :
        (pc[t] = "done" /\ ret[t] = "false" /\ Sole(t)) => ~IsValidPDF(fs[PathOf(t)])

\* C3: a task recorded as successful has at its destination a file of at
\* least MinSize bytes that starts with %PDF.  Stated for tasks that share
\* their destination with no other task.
C3_SuccessIsValidPDF ==
    \A t \in Tasks :
        ((pc[t] = "skip" \/ (pc[t] = "done" /\ ret[t] = "true")) /\ Sole(t)) =>
            /\ fs[PathOf(t)].exists
            /\ fs[PathOf(t)].size >= MinSize
            /\ fs[PathOf(t)].sig

\* C10: a task whose destination held a valid file when the run began makes
\* no transport call and is recorded as existing_file; and a task whose
\* destination holds a valid file when a worker takes it ends there, recorded
\* as existing_file, without a transport call.
C10_Invariant ==
    \A t \in Tasks :
        (prog = "direct" /\ IsValidPDF(fs0[PathOf(t)])) =>
            /\ netCalls[t] = 0
            /\ pc[t] \in {"pre", "skip"}
            /\ pc[t] = "skip" =>
                  downloaded_files[PathOf(t)].status = "existing_file"
            /\ mpc = "done" =>
                  /\ pc[t] = "skip"
                  /\ report.downloaded_files[PathOf(t)].status = "existing_file"
C10_Step ==
    \A t \in Tasks :
        (prog = "direct" /\ pc[t] = "queued" /\ pc'[t] # "queued"
            /\ IsValidPDF(fs[PathOf(t)])) =>
            /\ pc'[t] = "done" /\ ret'[t] = "true"
            /\ netCalls'[t] = 0
            /\ downloaded_files'[PathOf(t)].status = "existing_file"
C10_ExistingSkipsTransport == []C10_Invariant /\ [][C10_Step]_vars
C10_Witness ==
    /\ prog = "direct" /\ mpc = "done"
    /\ \E t \in Tasks :
          /\ IsValidPDF(fs0[PathOf(t)])
          /\ report.downloaded_files[PathOf(t)].status = "existing_file"
          /\ netCalls[t] = 0
    /\ \E u \in Tasks : netCalls[u] > 0

\* The failed list of the script that runs.
Failed == IF prog = "retry" THEN still_failed ELSE failed_downloads
\* The session.get calls of one attempt on a host that is down: one, or one
\* per download URL of download_file_advanced for a Google Drive file.
FetchesPerAttempt(t) ==
    IF tasks[t].url = "gdrive_noid" THEN 0
    ELSE IF prog = "retry" /\ tasks[t].url = "gdrive" THEN NumMethods
    ELSE 1

\* C6: a task whose every fetch fails with a transport error is attempted
\* exactly retry_count times (never more while it runs, exactly that many
\* when download_file or download_file_advanced has returned) and is then
\* recorded as failed exactly once, with retry_count - 1 waits in between.
C6_RetryBudget ==
    \A t \in Tasks :
        server[t] = "down" =>
            /\ attempt[t] < retry_count
            /\ netCalls[t] <= retry_count * FetchesPerAttempt(t)
            /\ NumFailedOf(Failed, t) <= 1
            /\ pc[t] = "done" =>
                  /\ ret[t] = "false"
                  /\ attempt[t] = retry_count - 1
                  /\ netCalls[t] = retry_count * FetchesPerAttempt(t)
                  /\ Len(slept[t]) = retry_count - 1
                  /\ NumFailedOf(Failed, t) = 1
                  /\ \A k \in DOMAIN Failed :
                        Failed[k].task = t => Failed[k].attempts = retry_count
            /\ pc[t] # "done" => NumFailedOf(Failed, t) = 0
C6_Witness ==
    \E t \in Tasks :
        /\ server[t] = "down" /\ pc[t] = "done" /\ ret[t] = "false"
        /\ retry_count = MaxRetryCount
        /\ netCalls[t] = MaxRetryCount * NumMethods
        /\ NumFailedOf(Failed, t) = 1

\* C7: every wait between two attempts of a task is at most BackoffCap
\* seconds and no shorter than the wait before it, under every retry_count.
\* (slept holds half seconds.)
C7_BackoffCapped ==
    \A t \in Tasks :
        \A k \in DOMAIN slept[t] :
            /\ slept[t][k] <= 2 * BackoffCap
            /\ k > 1 => slept[t][k - 1] <= slept[t][k]

\* C4: when the second of two runs on one catalog has saved its report, every
\* task (that shares its destination with no other) has the outcome the first
\* run gave it, successful or failed, and a task the first run recorded as
\* successful whose valid file was still in place made no transport call.
C4_SecondRunSame ==
    (run = 2 /\ mpc = "done") =>
        \A t \in Tasks :
            Sole(t) =>
                /\ Recorded(report.downloaded_files[PathOf(t)])
                      <=> Recorded(prev.downloaded_files[PathOf(t)])
                /\ NumFailedOf(report.failed_downloads, t)
                      = NumFailedOf(prev.failed_downloads, t)
                /\ (Recorded(prev.downloaded_files[PathOf(t)])
                        /\ IsValidPDF(fs0[PathOf(t)])) => netCalls[t] = 0

NumSuccessful(index) == Cardinality({p \in Paths : Recorded(index.downloaded_files[p])})
RetryRunDone == prog = "retry" /\ mpc = "done" /\ index0.exists

C5_InFlightBounded == NumInFlight <= max_workers
C5_Witness ==
    /\ Len(tasks) > max_workers
    /\ NumInFlight = max_workers
    /\ \E t \in Tasks : pc[t] = "queued"

\* C11: a Google Drive task whose first fetch brings an HTML page holding a
\* confirm token and whose fetch with that token brings a complete valid PDF
\* makes two fetches in all, within its first attempt, and ends recorded as
\* newly_downloaded.
C11_ConfirmRefetch ==
    \A t \in Tasks :
        (server[t] = "interstitial" /\ tasks[t].url = "gdrive" /\ pc[t] = "done") =>
            /\ ret[t] = "true"
            /\ netCalls[t] = 2
            /\ attempt[t] = 0
            /\ IF prog = "retry"
               THEN newly_downloaded_map[PathOf(t)].status = "newly_downloaded"
               ELSE downloaded_files[PathOf(t)].status = "newly_downloaded"

\* A step in which check_existing_file is called for task t: by the pre-check
\* loop of download_all_pdfs, or at the head of download_file.
PreChecks(t) == prog = "direct" /\ pc[t] = "pre" /\ pc'[t] # "pre"
HeadChecks(t) == prog = "direct" /\ pc[t] = "queued" /\ pc'[t] # "queued"
\* What the caller does when check_existing_file returned True.
TookAsExisting(t) ==
    \/ PreChecks(t) /\ pc'[t] = "skip"
    \/ HeadChecks(t) /\ pc'[t] = "done" /\ ret'[t] = "true" /\ netCalls'[t] = 0

\* C12: check_existing_file returns True if and only if the path exists, can
\* be read, starts with %PDF and is larger than MinSize bytes: in every call,
\* the caller takes the task as existing exactly for such a file.
C12_Step ==
    \A t \in Tasks :
        (PreChecks(t) \/ HeadChecks(t)) =>
            (TookAsExisting(t) <=>
                LET f == fs[PathOf(t)]
                IN  f.exists /\ f.readable /\ f.sig /\ f.size > MinSize)
C12_CheckExistingIff == [][C12_Step]_vars
\* A file with the signature and the size that cannot be read was rejected,
\* next to one that was accepted.
C12_Witness ==
    /\ prog = "direct"
    /\ \E t \in Tasks :
          /\ fs0[PathOf(t)] = Unreadable(TRUE, MinSize + 1)
          /\ pc[t] = "queued"
    /\ \E u \in Tasks : pc[u] = "skip"

\* C13: a call of check_existing_file removes the file at its path when the
\* path exists and the check fails (signature, size or reading), leaves it
\* as it is when the check succeeds or no file is there, and changes no other
\* path.  (Neither caller writes a file in the step of the call.)
C13_Step ==
    \A t \in Tasks :
        (PreChecks(t) \/ HeadChecks(t)) =>
            LET p == PathOf(t)
            IN  /\ fs'[p] = IF fs[p].exists /\ ~TookAsExisting(t) THEN NoFile ELSE fs[p]
                /\ \A q \in Paths : q # p => fs'[q] = fs[q]
C14_AtomicPersist ==
    mpc = "killed" =>
        /\ (prog = "direct" /\ run = 2) => report = prev
        /\ prog = "retry" => index_json = index0

\* C15: after a KeyboardInterrupt no queued task is started, and when the run
\* has ended every outcome recorded is in the ledger file.
C15_Persisted ==
    mpc = "aborted" =>
        IF prog = "direct"
        THEN /\ \A p \in Paths :
                  Recorded(downloaded_files[p]) =>
                      report.saved /\ report.downloaded_files[p] = downloaded_files[p]
             /\ failed_downloads # <<>> =>
                      report.saved /\ report.failed_downloads = failed_downloads
        ELSE /\ \A p \in Paths :
                  Recorded(newly_downloaded_map[p]) =>
                      index_json.downloaded_files[p] = newly_downloaded_map[p]
             /\ index_json.failed_downloads = still_failed
C15_NoDispatch ==
    mpc = "interrupted" => \A t \in Tasks : pc[t] = "queued" => pc'[t] = "queued"
C15_CancelStopsAndPersists == []C15_Persisted /\ [][C15_NoDispatch]_vars

\* C16: once a task has failed, the run still goes on to its end: while
\* anything is left to do some step can be taken, and a run that has stopped
\* has brought every task to a terminal outcome and has written its ledger.
C16_FailureIsolated ==
    (\E t \in Tasks : ret[t] = "false") =>
        \/ ENABLED NextPools
        \/ /\ mpc = "done"
           /\ \A t \in Tasks : pc[t] \in {"skip", "done", "collected"}
           /\ prog = "direct" => report.saved
           /\ prog = "retry" => index_json.failed_downloads = still_failed

\* C17: in a run whose ledger file cannot be written no request is made and
\* no destination file is created, changed or deleted.
C17_FatalBeforeDispatch ==
    ~writable => /\ \A t \in DOMAIN netCalls : netCalls[t] = 0
                 /\ fs = fs0

\* C18: a task that waits to retry keeps no other task from starting: when
\* the task next in the queue finds no worker free, every worker is at work on
\* a request and none of them sleeps between two attempts.
C18_RetryNeverBlocks ==
    \A t \in Tasks :
        (mpc = "pool" /\ NextQueued(t) /\ ~WorkerFree) =>
            \A u \in Tasks : pc[u] # "sleep"

\* C19: while workers run, the shared result state is changed only by the
\* thread that holds self.lock, one thread at a time, and no update is lost:
\* each counter and each list counts every task that has left its block.
C19_NoLostUpdate ==
    LET Left(K) == Cardinality({t \in Tasks : section[t] \in K
                                               /\ pc[t] \in {"release", "done"}})
        Skipped == Cardinality({t \in Tasks : pc[t] = "skip"})
    IN  /\ \A t \in Tasks : pc[t] \in {"load", "store", "release"} => lock = t
        /\ prog = "direct" =>
               /\ existing_files = Skipped + Left({"existing"})
               /\ newly_downloaded = Left({"new"})
               /\ Len(failed_downloads) = Left({"failed"})
        /\ prog = "retry" => Len(still_failed) = Left({"failed"})
        /\ prog = "batch" =>
               /\ download_stats.success = Left({"existing", "new"})
               /\ download_stats.failed = Left({"failed"})
C19_LockedStep ==
    (InSection # {} /\ <<ledger, newly_downloaded_map, still_failed, download_stats>>' #
                          <<ledger, newly_downloaded_map, still_failed, download_stats>>)
        => lock \in Tasks /\ pc[lock] = "store" /\ pc'[lock] = "release"
C19_MutationsLocked == []C19_NoLostUpdate /\ [][C19_LockedStep]_vars
C19_Witness ==
    \E t, u \in Tasks :
        /\ t # u /\ lock = t /\ pc[t] = "release" /\ pc[u] = "acquire"
        /\ section[t] = section[u] /\ HasCounter(section[t])
        /\ CounterValue(section[t]) >= 2

\* C20: a response is Ok when its payload starts with %PDF, Intercepted when
\* it does not and the content type is HTML, NotArtifact when it does not and
\* the content type is another one; only the payload of an Ok response is
\* written to the destination, and only an Ok response ends the task as
\* successful.
C20_Step ==
    \A t \in Tasks :
        \A r \in Answer(server[t], FALSE) \cup Answer(server[t], TRUE) :
            LET verdict == IF r.sig THEN "Ok"
                           ELSE IF r.ctype = "html" THEN "Intercepted"
                           ELSE "NotArtifact"
                handled == \/ Respond(t, r) \/ RespondRefetch(t, r)
                           \/ AdvRespond(t, r) \/ AdvRespondRefetch(t, r)
            IN  (handled /\ r.kind = "ok") =>
                    /\ (fs'[PathOf(t)].size > 0 /\ fs'[PathOf(t)] # fs[PathOf(t)])
                           => verdict = "Ok"
                    /\ ret'[t] = "true" => verdict = "Ok"
C20_OnlyOkStreamed == [][C20_Step]_vars

\* C21: a drive.google.com URL in which no pattern finds a file id is given
\* up at once: no request is made for the task, the task takes one attempt
\* and no wait, and it ends recorded as failed.
C21_UnresolvablePermanent ==
    \A t \in Tasks :
        tasks[t].url = "gdrive_noid" =>
            /\ netCalls[t] = 0
            /\ attempt[t] = 0 /\ slept[t] = <<>>
            /\ (pc[t] = "done" /\ ret[t] = "false") =>
                  IF prog = "direct" THEN NumFailedOf(failed_downloads, t) = 1
                  ELSE NumFailedOf(still_failed, t) = 1

\* The URLs requested so far for task t, whose URL is one of a generic host:
\* download_file and download_file_advanced request the URL as it is given,
\* download_page goes through urls_to_try, two requests for each.
GenericRequested(t) ==
    IF netCalls[t] = 0 THEN {}
    ELSE IF prog = "batch"
    THEN {urls_to_try[(m + 1) \div Len(verify_modes)] : m \in 1..method[t]}
    ELSE {"given"}

\* C22: when the request whose transport error ends a download as failed was
\* made for a URL of a generic host, the same URL with the other scheme has
\* been requested too.
C22_Step ==
    \A t \in Tasks :
        (/\ tasks[t].url = "direct"
         /\ \/ Respond(t, NetErr)
            \/ AdvRespond(t, NetErr)
            \/ \E written \in BOOLEAN : BatchRespond(t, NetErr, written)
         /\ ret'[t] = "false")
            => "other_scheme" \in GenericRequested(t)
C22_AlternateScheme == [][C22_Step]_vars

\* C23: a retry run that finds no index.json, or an index.json that lists no
\* failed download, makes no request and ends without an error.
C23_NoopSuccess ==
    (prog = "retry" /\ (~index0.exists \/ index0.failed_downloads = <<>>)) =>
        /\ \A t \in DOMAIN netCalls : netCalls[t] = 0
        /\ mpc # "crashed"

\* C24: at no moment two tasks have a request under way whose body goes to
\* one and the same destination path.
C24_OnePathOneTask ==
    \A t, u \in Tasks :
        (t # u /\ InFlight(t) /\ InFlight(u)) => PathOf(t) # PathOf(u)

\* C25: the submit loop of download_batch never comes to an item with the
\* session queue empty: the sessions are put back only by the as_completed
\* loop, which the same thread runs after the submit loop, so there it would
\* wait for ever and the items left would never be submitted.
C25_SubmitNeverBlocks ==
    prog = "batch" => ~(mpc = "submit" /\ session_queue = <<>>)

\* C26: in download_batch no session is in the hands of two items: an item
\* holds its session from its submission until its result has been collected,
\* no other item holds that session meanwhile, and the session is not in the
\* queue before it is put back.
C26_SessionExclusive ==
    prog = "batch" =>
        /\ \A t, u \in Tasks : (t # u /\ held[t] # 0) => held[t] # held[u]
        /\ \A t \in Tasks :
              /\ pc[t] \in {"queued", "fetch", "done"} => held[t] \in 1..max_workers
              /\ pc[t] \in {"pre", "collected"} => held[t] = 0
              /\ \A k \in DOMAIN session_queue : session_queue[k] # held[t]
        /\ \A k, m \in DOMAIN session_queue : k # m => session_queue[k] # session_queue[m]
\* Two items have requests under way, each with its own session.
C26_Witness ==
    /\ prog = "batch"
    /\ \E t, u \in Tasks :
          /\ t # u /\ pc[t] = "fetch" /\ pc[u] = "fetch"
          /\ held[t] # 0 /\ held[u] # 0

C28_SizeChecksAgree ==
    \A t \in Tasks :
        (pc[t] = "done" /\ ret[t] = "true" /\ netCalls[t] > 0) =>
            check_existing_file(File(TRUE, fs[PathOf(t)].size)).valid

\* C29: when the request made with the token of an interstitial page is
\* answered with an interstitial page again, the attempt ends there as failed:
\* no further request is made within it, with or without a token.
C29_Step ==
    \A t \in Tasks :
        \A r \in Answer(server[t], TRUE) :
            (/\ r.kind = "ok" /\ r.ctype = "html" /\ ~r.sig
             /\ RespondRefetch(t, r) \/ AdvRespondRefetch(t, r))
                => /\ pc'[t] \in {"sleep", "done"}
                   /\ ret'[t] # "true"
                   /\ netCalls'[t] = netCalls[t]
C29_OneRefetch == [][C29_Step]_vars

\* C30: the attempt count stored with a task's outcome is the number of
\* attempts the task made, which is one more than the number of waits it
\* slept: k between 1 and retry_count for a task downloaded on its k-th
\* attempt, retry_count for a task recorded as failed.
C30_AttemptCount ==
    \A t \in Tasks :
        LET made == Len(slept[t]) + 1
            new == IF prog = "retry" THEN newly_downloaded_map[PathOf(t)]
                   ELSE downloaded_files[PathOf(t)]
            failed == IF prog = "retry" THEN still_failed ELSE failed_downloads
        IN  /\ (pc[t] = "done" /\ ret[t] = "true" /\ netCalls[t] > 0 /\ new.task = t) =>
                  /\ new.status = "newly_downloaded"
                  /\ new.attempt = made
                  /\ 1 <= new.attempt /\ new.attempt <= retry_count
            /\ \A k \in DOMAIN failed :
                  failed[k].task = t =>
                      /\ pc[t] = "done" /\ ret[t] = "false"
                      /\ failed[k].attempts = made
                      /\ failed[k].attempts = retry_count
\* A task was downloaded on its last attempt of three.
C30_Witness ==
    \E t \in Tasks :
        /\ pc[t] = "done" /\ ret[t] = "true"
        /\ Len(slept[t]) = 2 /\ retry_count = 3
        /\ (IF prog = "retry" THEN newly_downloaded_map[PathOf(t)]
            ELSE downloaded_files[PathOf(t)]).attempt = 3

\* C31: when DirectPDFDownloader has saved its report, the counters agree
\* with the outcome map: existing_files + newly_downloaded is the number of
\* entries of downloaded_files, and total_found is the number of tasks of the
\* input list.
C31_CountersAgree ==
    (prog = "direct" /\ report.saved) =>
        /\ report.existing_files + report.newly_downloaded
              = Cardinality({p \in Paths : Recorded(report.downloaded_files[p])})
        /\ report.total_found = Cardinality(Tasks)

\* ------------------------------------------------- download_all_pages
\* The download_single_item calls begun for item t: the finished ones and the
\* one a worker is in.
Attempts(t) == Len(tried[t]) + (IF pc[t] = "fetch" THEN 1 ELSE 0)
\* The items whose call in round r returned success False.
FailedInRound(r) ==
    {t \in Tasks : Len(tried[t]) = r + 1 /\ ~tried[t][r + 1]}

\* C32: in download_all_pages every item is attempted at most 1 + max_retries
\* times, no item is attempted again after a call of it succeeded, the run
\* always goes on until the final summary, and the items the summary reports
\* as permanently failed are those that failed in the last round that ran.
C32_RetryLoop ==
    prog = "batch" =>
        /\ \A t \in Tasks :
              /\ Attempts(t) <= 1 + max_retries
              /\ \A k \in 1..(Attempts(t) - 1) : ~tried[t][k]
        /\ summary.printed \/ ENABLED NextAllPages
        /\ summary.printed =>
              {summary.failed[k] : k \in DOMAIN summary.failed}
                  = FailedInRound(retry_attempt)

\* C33: the final summary of NCTBBulkDownloader reports consistent counts:
\* its skipped count is the number of items that were skipped because their
\* index.html already existed, and skipped + actually downloaded + failed is
\* the total number of items.
C33_SummaryCounts ==
    (prog = "batch" /\ summary.printed) =>
        /\ summary.skipped_count
              = Cardinality({t \in Tasks : fs0[PathOf(t)].exists})
        /\ summary.skipped_count + summary.actual_downloads + Len(summary.failed)
              = summary.total

\* ------------------------------------------------- the method loop
\* Task t is inside an attempt of download_file_advanced on a Google Drive URL.
InMethodLoop(t) ==
    prog = "retry" /\ tasks[t].url = "gdrive" /\ pc[t] \in {"fetch", "refetch"}

\* C34: for a Google Drive URL each attempt of download_file_advanced tries the
\* four download URLs in their order, starting with the first and skipping
\* none; it stops at the first that succeeds, it fails only when the fourth has
\* failed, and a method that fails before the fourth, by an exception or
\* otherwise, is followed by the next method within the same attempt.
C34_Step ==
    \A t \in Tasks :
        /\ (prog = "retry" /\ pc[t] \in {"queued", "sleep"} /\ pc'[t] = "fetch")
              => method'[t] = 1
        /\ (InMethodLoop(t) /\ <<pc[t], ret[t], method[t]>>' # <<pc[t], ret[t], method[t]>>) =>
              /\ method[t] \in 1..NumMethods
              /\ \/ \* the method goes on with its second request
                    /\ pc[t] = "fetch" /\ pc'[t] = "refetch"
                    /\ method'[t] = method[t] /\ attempt'[t] = attempt[t]
                 \/ \* the method succeeded: no later one is tried
                    /\ pc'[t] = "done" /\ ret'[t] = "true"
                    /\ method'[t] = method[t] /\ netCalls'[t] = netCalls[t]
                 \/ \* the method failed and the next one is tried
                    /\ method[t] < NumMethods
                    /\ method'[t] = method[t] + 1 /\ pc'[t] = "fetch"
                    /\ attempt'[t] = attempt[t] /\ slept'[t] = slept[t]
                    /\ ret'[t] = "none"
                 \/ \* the fourth method failed: the attempt fails
                    /\ method[t] = NumMethods
                    /\ pc'[t] = "sleep" \/ (pc'[t] = "done" /\ ret'[t] = "false")
                    /\ netCalls'[t] = netCalls[t]
        /\ (InMethodLoop(t) /\ method[t] < NumMethods
              /\ (AdvRespond(t, NetErr) \/ AdvRespondRefetch(t, NetErr)))
              => pc'[t] = "fetch" /\ method'[t] = method[t] + 1
C34_MethodOrder == [][C34_Step]_vars
\* A Google Drive task has succeeded with its third download URL, after the
\* first two failed.
C34_Witness ==
    \E t \in Tasks :
        /\ prog = "retry" /\ tasks[t].url = "gdrive"
        /\ pc[t] = "done" /\ ret[t] = "true" /\ method[t] = 3

\* ------------------------------------------------- numbered output files
\* C35: process_csv and download_single_page never overwrite an existing
\* output file: every file that exists before a page is saved is the same
\* after it, and a page that is saved goes whole to the first of index.html,
\* index_1.html, index_2.html, ... that did not exist.
C35_Step ==
    \A f \in Folders :
        /\ \A n \in Names : out_dir[f][n] # Absent => out_dir'[f][n] = out_dir[f][n]
        /\ \A n \in Names :
              out_dir'[f][n] # out_dir[f][n] =>
                  /\ \A j \in 0..(n - 1) : out_dir[f][j] # Absent
                  /\ out_dir'[f][n] \in {i, Cut}
                  /\ \A m \in Names : m # n => out_dir'[f][m] = out_dir[f][m]
                  /\ f = Head(rows)
C35_NoOverwrite == [][C35_Step]_vars
\* A page was saved as index_2.html next to an index.html and an index_1.html
\* that were there before the run, and both are as they were.
C35_Witness ==
    \E f \in Folders :
        /\ prog = "print"
        /\ out_dir[f][0] = Old /\ out_dir[f][1] = Old /\ out_dir[f][2] > 0

\* ------------------------------------------------- the upload run
\* The requests.put calls of run r.
PutsOf(r) == {k \in DOMAIN uploads : uploads[k].run = r /\ uploads[k].put}
\* Run 1 went through every file and each file that needed an upload got one
\* that succeeded.
FirstRunAllSucceeded ==
    /\ run = 2 /\ prev.ended = "done"
    /\ \A k \in DOMAIN uploads : uploads[k].run = 1 => uploads[k].put /\ uploads[k].ok

\* C36: process_files_recursively never uploads a file whose entry carries an
\* archive_url other than the placeholder; so a second run, after a first run
\* in which every upload succeeded, uploads nothing and leaves the JSON file
\* as it was.
C36_SkipsUploaded ==
    prog = "upload" =>
        /\ \A k \in DOMAIN uploads :
              uploads[k].put => uploads[k].had \in {NoKey, Placeholder}
        /\ FirstRunAllSucceeded =>
              /\ PutsOf(2) = {}
              /\ json_file = prev.json
\* The second run is over after a first run that uploaded every file of a
\* two-file JSON, and nothing was uploaded again.
C36_Witness ==
    /\ prog = "upload" /\ FirstRunAllSucceeded /\ mpc = "done"
    /\ Cardinality(PutsOf(1)) = 2

====
